---- MODULE Spec2Model ----
(***************************************************************************)
(* Nutrition tracker (src/lab6.py): the session state of the Streamlit     *)
(* application (food catalog, daily log, user profile, weekly goals) and   *)
(* the handlers that read and change it.                                   *)
(*                                                                         *)
(* Numbers.  The program computes with Python floats; the model computes   *)
(* with exact fixed-point integers:                                        *)
(*   - per-100g nutrient values are kept in hundredths (0.99 -> 99);       *)
(*   - serving sizes are kept in tenths of a gram (0.1 g -> 1);            *)
(*   - a nutrition amount is kept in units of 1/NutritionScale, so that    *)
(*     value * (serving / 100) is the integer product of the two above;    *)
(*   - dates are day numbers: the "%Y-%m-%d" key of day d is d, and        *)
(*     today - timedelta(days=i) is today - i.                             *)
(* Float rounding is outside the model.                                    *)
(***************************************************************************)
EXTENDS Integers, Sequences, FiniteSets, TLC

\* ------------------------------------------------------------------ bounds
\* Last day number the clock reaches (the first day is 0).
MaxDay == 1
\* Largest number of entries the log holds before Add stops being offered.
MaxEntries == 3
\* Raw numeric serving inputs tried around 0, in tenths of a gram.
MaxRaw == 40
\* Longest run of in-band days in the generated streak histories.
MaxRun == 31
\* The most days older than a week a history holds.
MaxOld == 7

\* ------------------------------------------------------------- fixed point
\* Units per gram (or kcal) of a nutrition amount: hundredths (food value) times
\* tenths (serving) times the 100 of serving / 100.
NutritionScale == 100 * 10 * 100

NutritionFields == {"calories", "protein", "carbs", "fat", "fiber", "sugar"}

\* ----------------------------------------------------------------- catalog
\* FoodItem and its five subclasses: one record, cls naming the subclass.
FoodItem(name, cls, cal, prot, carb, fat, fib, sug) ==
    [name |-> name, cls |-> cls, calories_per_100g |-> cal, protein |-> prot,
     carbs |-> carb, fat |-> fat, fiber |-> fib, sugar |-> sug]

get_category(food) ==
    CASE food.cls = "Fruit" -> "Fruits"
      [] food.cls = "Vegetable" -> "Vegetables"
      [] food.cls = "Protein" -> "Proteins"
      [] food.cls = "Grain" -> "Grains"
      [] OTHER -> "Dairy"

\* The literal tables of create_food_database, values in hundredths.
SeedData == {
    <<"Apple", "Fruit", 5200, 30, 1400, 20, 240, 1040>>,
    <<"Banana", "Fruit", 8900, 110, 2300, 30, 260, 1220>>,
    <<"Orange", "Fruit", 4700, 90, 1200, 10, 240, 940>>,
    <<"Strawberry", "Fruit", 3200, 70, 800, 30, 200, 490>>,
    <<"Mango", "Fruit", 6000, 80, 1500, 40, 160, 1370>>,
    <<"Grapes", "Fruit", 6200, 60, 1600, 20, 90, 1600>>,
    <<"Broccoli", "Vegetable", 3400, 280, 700, 40, 260, 150>>,
    <<"Spinach", "Vegetable", 2300, 290, 360, 40, 220, 40>>,
    <<"Carrot", "Vegetable", 4100, 90, 1000, 20, 280, 470>>,
    <<"Bell Pepper", "Vegetable", 3100, 100, 700, 30, 250, 420>>,
    <<"Tomato", "Vegetable", 1800, 90, 390, 20, 120, 260>>,
    <<"Cucumber", "Vegetable", 1600, 70, 400, 10, 50, 170>>,
    <<"Chicken Breast", "Protein", 16500, 3100, 0, 360, 0, 0>>,
    <<"Salmon", "Protein", 20800, 2000, 0, 1300, 0, 0>>,
    <<"Eggs", "Protein", 15500, 1300, 110, 1100, 0, 70>>,
    <<"Tofu", "Protein", 7600, 800, 190, 480, 30, 60>>,
    <<"Ground Beef", "Protein", 25000, 2600, 0, 1500, 0, 0>>,
    <<"Tuna", "Protein", 14400, 3000, 0, 100, 0, 0>>,
    <<"Brown Rice", "Grain", 11100, 260, 2300, 90, 180, 40>>,
    <<"White Rice", "Grain", 13000, 270, 2800, 30, 40, 10>>,
    <<"Quinoa", "Grain", 12000, 440, 2200, 190, 280, 90>>,
    <<"Oats", "Grain", 38900, 1700, 6600, 700, 1100, 99>>,
    <<"Whole Wheat Bread", "Grain", 24700, 1300, 4100, 420, 700, 680>>,
    <<"White Bread", "Grain", 26500, 900, 4900, 320, 270, 570>>,
    <<"Milk (2%)", "Dairy", 5000, 340, 500, 200, 0, 500>>,
    <<"Greek Yogurt", "Dairy", 5900, 1000, 360, 40, 0, 360>>,
    <<"Cheddar Cheese", "Dairy", 40200, 2500, 130, 3300, 0, 50>>,
    <<"Cottage Cheese", "Dairy", 9800, 1100, 340, 430, 0, 270>>,
    <<"Almond Milk", "Dairy", 1700, 60, 60, 150, 50, 0>> }

\* The seeded foods the model keeps in the catalog, one of each class: the
\* handlers treat every seeded food alike.
SeededFoods == {"Apple", "Spinach", "Tofu", "Oats", "Greek Yogurt"}

create_food_database ==
    [n \in {t[1] : t \in SeedData} \cap SeededFoods |->
        LET t == CHOOSE u \in SeedData : u[1] = n
        IN FoodItem(t[1], t[2], t[3], t[4], t[5], t[6], t[7], t[8])]

\* ---------------------------------------------------- NutritionCalculator
\* A plausible slip: sugar computed from the fiber value.
calculate_nutrition_SugarFromFiber(food, serving_size_g) ==
    [calories |-> food.calories_per_100g * serving_size_g,
     protein |-> food.protein * serving_size_g,
     carbs |-> food.carbs * serving_size_g,
     fat |-> food.fat * serving_size_g,
     fiber |-> food.fiber * serving_size_g,
     sugar |-> food.fiber * serving_size_g]

\* FoodItem.calculate_nutrition: multiplier = serving_size_g / 100, each field
\* times the multiplier.  food values are hundredths and serving_size_g is in
\* tenths of a gram, so the product is the amount in 1/NutritionScale.
calculate_nutrition(food, serving_size_g) ==
    [calories |-> food.calories_per_100g * serving_size_g,
     protein |-> food.protein * serving_size_g,
     carbs |-> food.carbs * serving_size_g,
     fat |-> food.fat * serving_size_g,
     fiber |-> food.fiber * serving_size_g,
     sugar |-> food.sugar * serving_size_g]

\* --------------------------------------------------------- Python floats
\* A float is finite (v in tenths), nan, or an infinity (v its sign).
Fin(n) == [cls |-> "fin", v |-> n]
NaN == [cls |-> "nan", v |-> 0]
Inf(sign) == [cls |-> "inf", v |-> sign]

\* f <= 0 and f > limit as Python compares floats: every comparison with nan
\* is False.
FloatLeZero(f) == (f.cls = "fin" /\ f.v <= 0) \/ (f.cls = "inf" /\ f.v < 0)
FloatGt(f, limit) == (f.cls = "fin" /\ f.v > limit) \/ (f.cls = "inf" /\ f.v > 0)

\* Raw values handed to float(): a float, a string (a sequence of characters)
\* or None.
RawFloat(f) == [k |-> "float", f |-> f, s |-> <<>>]
RawStr(s) == [k |-> "str", f |-> NaN, s |-> s]
RawNone == [k |-> "none", f |-> NaN, s |-> <<>>]

Digits == {"0", "1", "2", "3", "4", "5", "6", "7", "8", "9"}
DigitValue(c) ==
    CASE c = "0" -> 0 [] c = "1" -> 1 [] c = "2" -> 2 [] c = "3" -> 3
      [] c = "4" -> 4 [] c = "5" -> 5 [] c = "6" -> 6 [] c = "7" -> 7
      [] c = "8" -> 8 [] OTHER -> 9

RECURSIVE DigitsValue(_)
DigitsValue(s) ==
    IF s = <<>> THEN 0
    ELSE DigitsValue(SubSeq(s, 1, Len(s) - 1)) * 10 + DigitValue(s[Len(s)])

AllDigits(s) == \A i \in 1..Len(s) : s[i] \in Digits
DotAt(s) == IF \E i \in 1..Len(s) : s[i] = "." 
            THEN CHOOSE i \in 1..Len(s) : s[i] = "." /\ \A j \in 1..(i - 1) : s[j] # "."
            ELSE Len(s) + 1
IntPart(s) == SubSeq(s, 1, DotAt(s) - 1)
FracPart(s) == SubSeq(s, DotAt(s) + 1, Len(s))

\* float(str) on the strings the model tries: an optional sign, then "nan",
\* "inf", "infinity", or decimal digits with an optional point (at most one
\* fractional digit: the model's resolution is a tenth); anything else raises
\* ValueError.  Exponents, whitespace and underscores are not tried.
ParseFloat(s) ==
    LET signed == Len(s) > 0 /\ s[1] \in {"-", "+"}
        sign == IF Len(s) > 0 /\ s[1] = "-" THEN -1 ELSE 1
        body == IF signed THEN Tail(s) ELSE s
    IN IF body = <<"n", "a", "n">> THEN [exc |-> "", f |-> NaN]
       ELSE IF body \in {<<"i", "n", "f">>, <<"i", "n", "f", "i", "n", "i", "t", "y">>}
            THEN [exc |-> "", f |-> Inf(sign)]
       ELSE IF /\ AllDigits(IntPart(body)) /\ AllDigits(FracPart(body))
               /\ Len(IntPart(body)) + Len(FracPart(body)) > 0
               /\ Len(FracPart(body)) <= 1
            THEN [exc |-> "",
                  f |-> Fin(sign * (DigitsValue(IntPart(body)) * 10
                                    + DigitsValue(FracPart(body))))]
       ELSE [exc |-> "ValueError", f |-> NaN]

\* float(x): a float is itself, a string is parsed, None raises TypeError.
ToFloat(raw) ==
    CASE raw.k = "float" -> [exc |-> "", f |-> raw.f]
      [] raw.k = "str" -> ParseFloat(raw.s)
      [] OTHER -> [exc |-> "TypeError", f |-> NaN]

\* ------------------------------------------------------------ validation
\* The limit of validate_serving_size, in grams.
ServingLimitGrams == 10000

\* validate_serving_size: returns the size, or raises.  ValueError from float()
\* becomes InvalidServingSizeError; any other exception of float() propagates.
validate_serving_size(serving_size) ==
    LET c == ToFloat(serving_size)
    IN IF c.exc = "ValueError"
       THEN [ok |-> FALSE, exc |-> "InvalidServingSizeError", size |-> NaN]
       ELSE IF c.exc # ""
       THEN [ok |-> FALSE, exc |-> c.exc, size |-> NaN]
       ELSE IF FloatLeZero(c.f) \/ FloatGt(c.f, ServingLimitGrams * 10)
       THEN [ok |-> FALSE, exc |-> "InvalidServingSizeError", size |-> NaN]
       ELSE [ok |-> TRUE, exc |-> "", size |-> c.f]

\* ------------------------------------------------------- TargetCalculator
\* Weights are tenths of a kg and heights tenths of a cm, so 10*weight is the
\* weight value itself and 6.25*height is 5/8 of the height value: a BMR is
\* kept in eighths of a kcal.
BmrScale == 2 * 2 * 2
\* Macro targets (grams) are kept in units of 1/MacroScale: weight * 2.2 and
\* calories * 0.25 / 9 are both whole numbers of 1/3600 g.
MacroScale == 36 * 100

\* int(x) for x = a / b with b > 0: truncation toward zero.
TruncDiv(a, b) == IF a >= 0 THEN a \div b ELSE -((-a) \div b)

calculate_bmr(weight, height, age, gender) ==
    IF gender = "Male"
    THEN BmrScale * weight + 5 * height - 5 * BmrScale * age + 5 * BmrScale
    ELSE BmrScale * weight + 5 * height - 5 * BmrScale * age - 161 * BmrScale

\* activity_multipliers, in thousandths; .get(activity_level, 1.55).
activity_multiplier(activity_level) ==
    CASE activity_level = "Sedentary" -> 1200
      [] activity_level = "Light" -> 1375
      [] activity_level = "Moderate" -> 1550
      [] activity_level = "Active" -> 1725
      [] activity_level = "Very Active" -> 1900
      [] OTHER -> 1550

\* A plausible slip: rounding down instead of truncating.
calculate_daily_calories_Floor(bmr, activity_level) ==
    (bmr * activity_multiplier(activity_level)) \div (BmrScale * 1000)

calculate_daily_calories(bmr, activity_level) ==
    TruncDiv(bmr * activity_multiplier(activity_level), BmrScale * 1000)

\* A plausible slip: the goal factor applied to the BMR, before the activity
\* multiplier and the truncation.
CalculatedTargets_GoalOnBmr(weight, height, age, gender, activity_level, goal) ==
    LET bmr == calculate_bmr(weight, height, age, gender)
        factor == IF goal = "Lose Weight" THEN 8
                  ELSE IF goal = "Gain Weight" THEN 12 ELSE 10
        daily_calories == TruncDiv(bmr * factor * activity_multiplier(activity_level),
                                   BmrScale * 1000 * 10)
        daily_protein == (weight * 22 * MacroScale) \div 100
        daily_fat == (daily_calories * 25 * MacroScale) \div (100 * 9)
        daily_carbs == (daily_calories * MacroScale - daily_protein * 4
                        - daily_fat * 9) \div 4
    IN [daily_calories |-> daily_calories, daily_protein |-> daily_protein,
        daily_carbs |-> daily_carbs, daily_fat |-> daily_fat]

\* A plausible slip: fat and carbs derived from the calories before the goal
\* adjustment.
CalculatedTargets_MacrosFromBase(weight, height, age, gender, activity_level, goal) ==
    LET bmr == calculate_bmr(weight, height, age, gender)
        base == calculate_daily_calories(bmr, activity_level)
        daily_calories == IF goal = "Lose Weight" THEN TruncDiv(base * 8, 10)
                          ELSE IF goal = "Gain Weight" THEN TruncDiv(base * 12, 10)
                          ELSE base
        daily_protein == (weight * 22 * MacroScale) \div 100
        daily_fat == (base * 25 * MacroScale) \div (100 * 9)
        daily_carbs == (base * MacroScale - daily_protein * 4
                        - daily_fat * 9) \div 4
    IN [daily_calories |-> daily_calories, daily_protein |-> daily_protein,
        daily_carbs |-> daily_carbs, daily_fat |-> daily_fat]

\* show_profile, "Calculated Targets": the four derived targets of the form's
\* current values.
CalculatedTargets(weight, height, age, gender, activity_level, goal) ==
    LET bmr == calculate_bmr(weight, height, age, gender)
        base == calculate_daily_calories(bmr, activity_level)
        daily_calories == IF goal = "Lose Weight" THEN TruncDiv(base * 8, 10)
                          ELSE IF goal = "Gain Weight" THEN TruncDiv(base * 12, 10)
                          ELSE base
        daily_protein == (weight * 22 * MacroScale) \div 100
        daily_fat == (daily_calories * 25 * MacroScale) \div (100 * 9)
        daily_carbs == (daily_calories * MacroScale - daily_protein * 4
                        - daily_fat * 9) \div 4
    IN [daily_calories |-> daily_calories, daily_protein |-> daily_protein,
        daily_carbs |-> daily_carbs, daily_fat |-> daily_fat]

\* ------------------------------------------------------------- the state
VARIABLES
    food_database,  \* st.session_state.food_database: name -> FoodItem
    daily_entries,  \* st.session_state.daily_entries: date -> sequence of entries
    user_profile,   \* st.session_state.user_profile: key -> value
    weekly_goals,   \* st.session_state.weekly_goals
    today,          \* datetime.now(), as a day number
    status,         \* what the last script run reported: "", "success" or the error
    output,         \* what the last script run rendered or returned
    download        \* the JSON file the last export handed to the browser

vars == <<food_database, daily_entries, user_profile, weekly_goals, today,
          status, output, download>>

NoOutput == [page |-> "none"]

\* No export has been downloaded yet.
NoFile == [text |-> "none"]

\* The default profile of initialize_session_state (no 'gender' key).
DefaultProfile ==
    [name |-> "User", age |-> 25, weight |-> 700, height |-> 1700,
     activity_level |-> "Moderate", goal |-> "Maintain Weight",
     daily_calories |-> 2000, daily_protein |-> 150 * MacroScale,
     daily_carbs |-> 250 * MacroScale, daily_fat |-> 67 * MacroScale]

DefaultGoals == [water_glasses |-> 8, exercise_minutes |-> 150, sleep_hours |-> 8]

\* The empty dict {}.
EmptyLog == [d \in {} |-> <<>>]

\* initialize_session_state, on a fresh session.
Init ==
    /\ food_database = create_food_database
    /\ daily_entries = EmptyLog
    /\ user_profile = DefaultProfile
    /\ weekly_goals = DefaultGoals
    /\ today = 0
    /\ status = ""
    /\ output = NoOutput
    /\ download = NoFile

\* dict.update(new): the keys of new overwritten or added, the others kept.
DictUpdate(old, new) ==
    [k \in DOMAIN old \cup DOMAIN new |-> IF k \in DOMAIN new THEN new[k] ELSE old[k]]

\* d[key] = value on a dict.
DictSet(d, key, value) ==
    [k \in DOMAIN d \cup {key} |-> IF k = key THEN value ELSE d[k]]

RECURSIVE CountEntries(_, _)
CountEntries(log, dates) ==
    IF dates = {} THEN 0
    ELSE LET d == CHOOSE x \in dates : TRUE
         IN Len(log[d]) + CountEntries(log, dates \ {d})
TotalEntries(log) == CountEntries(log, DOMAIN log)

\* ------------------------------------------------------------ the inputs
\* Foods picked in the "Select food" box (offered when in the catalog).
FoodInputs == {"Oats", "Kale"}
\* Serving sizes typed, in tenths of a gram: 0 g, 500 g and 10000.1 g.  The
\* number_input widget is presentation; the handler validates whatever number
\* it is given.
ServingInputs == {0, 5000, ServingLimitGrams * 10 + 1}
MealInputs == {<<"Breakfast", "08:00">>}
\* "Add Custom Food": names typed, and (category, calories, protein, carbs,
\* fat, fiber, sugar) in hundredths.
NameInputs == {"", "Oats", "Kale"}
CustomInputs == {<<"Vegetables", 4900, 430, 900, 90, 360, 230>>,
                 <<"Grains", 35000, 1200, 7100, 150, 320, 270>>}
\* Profile form: name, age, weight, height, gender, activity level, goal.
ProfileInputs == {<<"Ann", 30, 600, 1650, "Female", "Light", "Lose Weight">>,
                  <<"User", 25, 700, 1700, "Male", "Moderate", "Maintain Weight">>}
\* Goal sliders: water glasses, exercise minutes, sleep hours.
GoalInputs == {<<10, 200, 7>>}

LogEntry(time, meal, food_name, serving_size, nutrition) ==
    [time |-> time, meal |-> meal, food_name |-> food_name,
     serving_size |-> serving_size, nutrition |-> nutrition]

\* ------------------------------------------------------- Food Entry page
\* A plausible slip: the date bucket created before the serving is validated.
AddToFoodLog_BucketFirst(food_name, serving_size, meal, time) ==
    /\ food_name \in DOMAIN food_database
    /\ LET selected_food == food_database[food_name]
           nutrition == calculate_nutrition(selected_food, serving_size)
           checked == validate_serving_size(RawFloat(Fin(serving_size)))
           entry == LogEntry(time, meal, food_name, serving_size, nutrition)
           bucket == IF today \in DOMAIN daily_entries
                     THEN daily_entries[today] ELSE <<>>
       IN IF checked.ok
          THEN /\ TotalEntries(daily_entries) < MaxEntries
               /\ daily_entries' = DictSet(daily_entries, today, Append(bucket, entry))
               /\ status' = "success"
          ELSE /\ daily_entries' = DictSet(daily_entries, today, bucket)
               /\ status' = checked.exc
    /\ output' = NoOutput
    /\ UNCHANGED <<food_database, user_profile, weekly_goals, today, download>>

\* A plausible slip: the new entry put first (insert(0, entry)).
AddToFoodLog_Prepend(food_name, serving_size, meal, time) ==
    /\ food_name \in DOMAIN food_database
    /\ LET selected_food == food_database[food_name]
           nutrition == calculate_nutrition(selected_food, serving_size)
           checked == validate_serving_size(RawFloat(Fin(serving_size)))
           entry == LogEntry(time, meal, food_name, serving_size, nutrition)
           bucket == IF today \in DOMAIN daily_entries
                     THEN daily_entries[today] ELSE <<>>
       IN IF checked.ok
          THEN /\ TotalEntries(daily_entries) < MaxEntries
               /\ daily_entries' = DictSet(daily_entries, today, <<entry>> \o bucket)
               /\ status' = "success"
          ELSE /\ daily_entries' = daily_entries
               /\ status' = checked.exc
    /\ output' = NoOutput
    /\ UNCHANGED <<food_database, user_profile, weekly_goals, today, download>>

\* show_food_entry, "Add to Food Log" pressed with the form's values.  The
\* nutrition is the one the page computed from the same food and serving.
AddToFoodLog(food_name, serving_size, meal, time) ==
    /\ food_name \in DOMAIN food_database
    /\ LET selected_food == food_database[food_name]
           nutrition == calculate_nutrition(selected_food, serving_size)
           checked == validate_serving_size(RawFloat(Fin(serving_size)))
           entry == LogEntry(time, meal, food_name, serving_size, nutrition)
           bucket == IF today \in DOMAIN daily_entries
                     THEN daily_entries[today] ELSE <<>>
       IN IF checked.ok
          THEN /\ TotalEntries(daily_entries) < MaxEntries
               /\ daily_entries' = DictSet(daily_entries, today, Append(bucket, entry))
               /\ status' = "success"
          ELSE /\ daily_entries' = daily_entries
               /\ status' = checked.exc
    /\ output' = NoOutput
    /\ UNCHANGED <<food_database, user_profile, weekly_goals, today, download>>

\* ---------------------------------------------------------- Dashboard page
\* A plausible slip: the selection, counted from 0, used as a position counted
\* from 1.
ListDel_OneBased(lst, i) == SubSeq(lst, 1, i - 1) \o SubSeq(lst, i + 1, Len(lst))

\* del lst[i] for i >= 0: the list without position i (0-based), or IndexError.
ListDel(lst, i) == SubSeq(lst, 1, i) \o SubSeq(lst, i + 2, Len(lst))

\* A plausible slip: the date key dropped when its last entry is removed.
RemoveEntry_DropsEmptyBucket(entry_to_remove) ==
    /\ today \in DOMAIN daily_entries
    /\ Len(daily_entries[today]) > 0
    /\ IF entry_to_remove < Len(daily_entries[today])
       THEN /\ daily_entries' =
                    IF Len(daily_entries[today]) = 1
                    THEN [d \in DOMAIN daily_entries \ {today} |-> daily_entries[d]]
                    ELSE [daily_entries EXCEPT ![today] = ListDel(@, entry_to_remove)]
            /\ status' = ""
       ELSE /\ daily_entries' = daily_entries
            /\ status' = "IndexError"
    /\ output' = NoOutput
    /\ UNCHANGED <<food_database, user_profile, weekly_goals, today, download>>

\* show_dashboard, "Remove Entry" pressed: offered when today has entries.
\* entry_to_remove is a natural number; one equal to the length (a stale
\* selection) makes del raise IndexError, which no handler catches.
RemoveEntry(entry_to_remove) ==
    /\ today \in DOMAIN daily_entries
    /\ Len(daily_entries[today]) > 0
    /\ IF entry_to_remove < Len(daily_entries[today])
       THEN /\ daily_entries' = [daily_entries EXCEPT
                                  ![today] = ListDel(@, entry_to_remove)]
            /\ status' = ""
       ELSE /\ daily_entries' = daily_entries
            /\ status' = "IndexError"
    /\ output' = NoOutput
    /\ UNCHANGED <<food_database, user_profile, weekly_goals, today, download>>

\* ------------------------------------------------------------ Profile page
\* show_profile, "Save Profile" pressed.
\* A plausible slip: the derived targets left out of the update.
SaveProfile_KeepsTargets(name, age, weight, height, gender, activity_level, goal) ==
    /\ user_profile' = DictUpdate(user_profile,
            [name |-> name, age |-> age, weight |-> weight, height |-> height,
             gender |-> gender, activity_level |-> activity_level, goal |-> goal])
    /\ status' = "success"
    /\ output' = NoOutput
    /\ UNCHANGED <<food_database, daily_entries, weekly_goals, today, download>>

SaveProfile(name, age, weight, height, gender, activity_level, goal) ==
    /\ LET t == CalculatedTargets(weight, height, age, gender, activity_level, goal)
       IN user_profile' = DictUpdate(user_profile,
            [name |-> name, age |-> age, weight |-> weight, height |-> height,
             gender |-> gender, activity_level |-> activity_level, goal |-> goal,
             daily_calories |-> t.daily_calories, daily_protein |-> t.daily_protein,
             daily_carbs |-> t.daily_carbs, daily_fat |-> t.daily_fat])
    /\ status' = "success"
    /\ output' = NoOutput
    /\ UNCHANGED <<food_database, daily_entries, weekly_goals, today, download>>

\* -------------------------------------------------------------- Goals page
\* show_goals, "Save Goals" pressed.
SaveGoals(new_water, new_exercise, new_sleep) ==
    /\ weekly_goals' = DictUpdate(weekly_goals,
            [water_glasses |-> new_water, exercise_minutes |-> new_exercise,
             sleep_hours |-> new_sleep])
    /\ status' = "success"
    /\ output' = NoOutput
    /\ UNCHANGED <<food_database, daily_entries, user_profile, today, download>>

\* ----------------------------------------------------------- Settings page
\* An uploaded file, as json.load sees it: text that is not JSON ("invalid"),
\* or a JSON number, array (of strings) or object.  The objects tried follow
\* the export format: user_profile, daily_entries and weekly_goals, each
\* optional, their values shaped as the program's own structures.
ImportKeys == {"user_profile", "daily_entries", "weekly_goals"}

ImportedProfile ==
    [name |-> "Bea", age |-> 40, weight |-> 800, height |-> 1800,
     gender |-> "Female", activity_level |-> "Active", goal |-> "Gain Weight",
     daily_calories |-> 1800, daily_protein |-> 90 * MacroScale,
     daily_carbs |-> 200 * MacroScale, daily_fat |-> 50 * MacroScale]

ImportedGoals == [water_glasses |-> 6, exercise_minutes |-> 90, sleep_hours |-> 9]

\* Entries of an imported log: a food the catalog lacks, and a catalog food
\* whose stored snapshot is the document's own.
PizzaEntry ==
    LogEntry("12:00", "Lunch", "Pizza", 3000,
             [calories |-> 1900 * NutritionScale, protein |-> 80 * NutritionScale,
              carbs |-> 240 * NutritionScale, fat |-> 70 * NutritionScale,
              fiber |-> 26 * NutritionScale, sugar |-> 9 * NutritionScale])
AppleEntry ==
    LogEntry("16:00", "Snack", "Apple", 1500,
             [calories |-> 80 * NutritionScale, protein |-> 0,
              carbs |-> 21 * NutritionScale, fat |-> 0,
              fiber |-> 4 * NutritionScale, sugar |-> 15 * NutritionScale])

ImportedLogs ==
    { [d \in {0, 1} |-> IF d = 0 THEN <<PizzaEntry, AppleEntry>> ELSE <<>>],
      [d \in {-1} |-> <<PizzaEntry>>] }

Restrict(f, keys) == [k \in DOMAIN f \cap keys |-> f[k]]

\* The key sets tried: none, each key alone, and all three.
ImportKeySets == {{}, ImportKeys} \cup { {k} : k \in ImportKeys }

ObjectDocs ==
    { Restrict([user_profile |-> ImportedProfile, daily_entries |-> log,
                weekly_goals |-> ImportedGoals, export_timestamp |-> "2026-01-01T00:00:00"],
               keys \cup {"export_timestamp"}) :
        log \in ImportedLogs, keys \in ImportKeySets }

Documents ==
    { [kind |-> "invalid", data |-> <<>>],
      [kind |-> "number", data |-> <<>>],
      [kind |-> "array", data |-> <<>>],
      [kind |-> "array", data |-> <<"daily_entries">>] }
    \cup { [kind |-> "object", data |-> doc] : doc \in ObjectDocs }

\* key in data, for the parsed JSON value data: membership in a list, key
\* membership in a dict, TypeError on a number.
KeyIn(key, file) ==
    CASE file.kind = "object" -> key \in DOMAIN file.data
      [] file.kind = "array" -> \E i \in 1..Len(file.data) : file.data[i] = key
      [] OTHER -> FALSE

\* Whether the import block raises: json.load on text that is not JSON, the
\* first membership test on a number, or data[key] on a list holding the key.
\* Each happens before the first assignment.
ImportRaises(file) ==
    \/ file.kind \in {"invalid", "number"}
    \/ file.kind = "array" /\ \E key \in ImportKeys : KeyIn(key, file)

\* A plausible slip: a structure whose key is missing reset instead of kept.
ImportData_ResetsMissing(file) ==
    /\ IF ImportRaises(file)
       THEN /\ UNCHANGED <<user_profile, daily_entries, weekly_goals>>
            /\ status' = "ImportError"
       ELSE /\ user_profile' = IF KeyIn("user_profile", file)
                                THEN file.data["user_profile"] ELSE user_profile
            /\ daily_entries' = IF KeyIn("daily_entries", file)
                                 THEN file.data["daily_entries"] ELSE EmptyLog
            /\ weekly_goals' = IF KeyIn("weekly_goals", file)
                                THEN file.data["weekly_goals"] ELSE weekly_goals
            /\ status' = "success"
    /\ output' = NoOutput
    /\ UNCHANGED <<food_database, today, download>>

\* show_settings, "Import Data" pressed on an uploaded file.
ImportData(file) ==
    /\ IF ImportRaises(file)
       THEN /\ UNCHANGED <<user_profile, daily_entries, weekly_goals>>
            /\ status' = "ImportError"
       ELSE /\ user_profile' = IF KeyIn("user_profile", file)
                                THEN file.data["user_profile"] ELSE user_profile
            /\ daily_entries' = IF KeyIn("daily_entries", file)
                                 THEN file.data["daily_entries"] ELSE daily_entries
            /\ weekly_goals' = IF KeyIn("weekly_goals", file)
                                THEN file.data["weekly_goals"] ELSE weekly_goals
            /\ status' = "success"
    /\ output' = NoOutput
    /\ UNCHANGED <<food_database, today, download>>

\* JSON text, as the tree of its tokens: numbers, strings, arrays and objects.
JNum(n) == [j |-> "number", v |-> n]
JStr(str) == [j |-> "string", v |-> str]
JArr(items) == [j |-> "array", v |-> items]
JObj(members) == [j |-> "object", v |-> members]

\* The keys of the profile whose values are str; the others are numbers.
ProfileStrKeys == {"name", "gender", "activity_level", "goal"}

\* json.dumps of the three structures: a dict becomes an object with the same
\* (str) keys, a list an array, a number a number token and a str a string
\* token.  Every value is natively serialisable, so default=str is not called.
DumpProfile(profile) ==
    JObj([k \in DOMAIN profile |->
            IF k \in ProfileStrKeys THEN JStr(profile[k]) ELSE JNum(profile[k])])

DumpEntry(entry) ==
    JObj([time |-> JStr(entry.time), meal |-> JStr(entry.meal),
          food_name |-> JStr(entry.food_name),
          serving_size |-> JNum(entry.serving_size),
          nutrition |-> JObj([f \in DOMAIN entry.nutrition |->
                                JNum(entry.nutrition[f])])])

DumpLog(log) ==
    JObj([d \in DOMAIN log |->
            JArr([i \in 1..Len(log[d]) |-> DumpEntry(log[d][i])])])

DumpGoals(goals) == JObj([k \in DOMAIN goals |-> JNum(goals[k])])

\* A plausible slip: weekly_goals left out of export_data.
json_dumps_WithoutGoals(profile, log, goals, timestamp) ==
    JObj([user_profile |-> DumpProfile(profile),
          daily_entries |-> DumpLog(log),
          export_timestamp |-> JStr(timestamp)])

\* json.dumps(export_data, indent=2, default=str) of "Export All Data".
json_dumps(profile, log, goals, timestamp) ==
    JObj([user_profile |-> DumpProfile(profile),
          daily_entries |-> DumpLog(log),
          weekly_goals |-> DumpGoals(goals),
          export_timestamp |-> JStr(timestamp)])

\* The Python value json.load builds from a token tree.
RECURSIVE FromJson(_)
FromJson(token) ==
    CASE token.j = "object" -> [k \in DOMAIN token.v |-> FromJson(token.v[k])]
      [] token.j = "array" -> [i \in 1..Len(token.v) |-> FromJson(token.v[i])]
      [] OTHER -> token.v

\* json.load(uploaded_file), for a file that holds the text of an export.
json_load(text) == [kind |-> text.j, data |-> FromJson(text)]

\* show_settings, "Export All Data" pressed and the file downloaded.  The
\* record keeps, beside the text, the three structures the text was made of.
ExportAllData ==
    /\ download' = [text |-> json_dumps(user_profile, daily_entries, weekly_goals, today),
                    user_profile |-> user_profile,
                    daily_entries |-> daily_entries,
                    weekly_goals |-> weekly_goals]
    /\ status' = "success"
    /\ output' = NoOutput
    /\ UNCHANGED <<food_database, daily_entries, user_profile, weekly_goals, today>>

\* show_settings, "Import Data" pressed on the file downloaded earlier.
ImportDownload ==
    /\ download # NoFile
    /\ ImportData(json_load(download.text))

\* show_settings, "Clear All Food Entries" pressed.
ClearAllFoodEntries ==
    /\ daily_entries' = EmptyLog
    /\ status' = "success"
    /\ output' = NoOutput
    /\ UNCHANGED <<food_database, user_profile, weekly_goals, today, download>>

\* show_settings, "Reset Profile to Defaults" pressed.
ResetProfile ==
    /\ user_profile' = DefaultProfile
    /\ status' = "success"
    /\ output' = NoOutput
    /\ UNCHANGED <<food_database, daily_entries, weekly_goals, today, download>>

\* The subclass built for the category picked in "Add Custom Food".
CategoryClass(food_category) ==
    CASE food_category = "Fruits" -> "Fruit"
      [] food_category = "Vegetables" -> "Vegetable"
      [] food_category = "Proteins" -> "Protein"
      [] food_category = "Grains" -> "Grain"
      [] OTHER -> "Dairy"

\* A plausible slip: only the empty name refused, an existing name overwritten.
AddCustomFood_Overwrite(food_name, food_category, calories, protein, carbs, fat, fiber, sugar) ==
    /\ IF food_name # ""
       THEN /\ food_database' = DictSet(food_database, food_name,
                    FoodItem(food_name, CategoryClass(food_category), calories,
                             protein, carbs, fat, fiber, sugar))
            /\ status' = "success"
       ELSE /\ food_database' = food_database
            /\ status' = "DuplicateNameError"
    /\ output' = NoOutput
    /\ UNCHANGED <<daily_entries, user_profile, weekly_goals, today, download>>

\* show_settings, "Add Custom Food" pressed.
AddCustomFood(food_name, food_category, calories, protein, carbs, fat, fiber, sugar) ==
    /\ IF food_name # "" /\ food_name \notin DOMAIN food_database
       THEN /\ food_database' = DictSet(food_database, food_name,
                    FoodItem(food_name, CategoryClass(food_category), calories,
                             protein, carbs, fat, fiber, sugar))
            /\ status' = "success"
       ELSE /\ food_database' = food_database
            /\ status' = "DuplicateNameError"
    /\ output' = NoOutput
    /\ UNCHANGED <<daily_entries, user_profile, weekly_goals, today, download>>

\* ---------------------------------------------------------------- queries
\* sum(entry['nutrition'][field] for entry in entries)
RECURSIVE SumField(_, _)
SumField(entries, field) ==
    IF entries = <<>> THEN 0
    ELSE entries[1].nutrition[field] + SumField(Tail(entries), field)

\* The keys of total_nutrition in show_dashboard.
TotalFields == {"calories", "protein", "carbs", "fat", "fiber"}

\* The metrics the else branch of show_dashboard shows as "0".
ZeroMetrics == {"calories", "protein", "carbs", "fat"}

\* A plausible slip: the first entry left out of the sums.
aggregate_SkipFirst(log, date) ==
    IF date \in DOMAIN log
    THEN [f \in TotalFields |->
            IF log[date] = <<>> THEN 0 ELSE SumField(Tail(log[date]), f)]
    ELSE [f \in ZeroMetrics |-> 0]

\* show_dashboard: the day's totals when the date is a key of the log, and the
\* zeros shown in the else branch when it is not.
aggregate(log, date) ==
    IF date \in DOMAIN log
    THEN [f \in TotalFields |-> SumField(log[date], f)]
    ELSE [f \in ZeroMetrics |-> 0]

\* A plausible slip: the seven days listed newest first.
create_weekly_trend_chart_NewestFirst(log, day) ==
    IF DOMAIN log = {}
    THEN [none |-> TRUE, dates |-> <<>>, calories |-> <<>>]
    ELSE [none |-> FALSE,
          dates |-> [k \in 1..7 |-> day - (k - 1)],
          calories |-> [k \in 1..7 |->
                          IF (day - (k - 1)) \in DOMAIN log
                          THEN SumField(log[day - (k - 1)], "calories") ELSE 0]]

\* create_weekly_trend_chart: None for an empty log; otherwise the lists
\* dates and calories the loop over i = 6, 5, ..., 0 builds (entry k is for
\* i = 7 - k), a day missing from the log carrying 0.
create_weekly_trend_chart(log, day) ==
    IF DOMAIN log = {}
    THEN [none |-> TRUE, dates |-> <<>>, calories |-> <<>>]
    ELSE [none |-> FALSE,
          dates |-> [k \in 1..7 |-> day - (7 - k)],
          calories |-> [k \in 1..7 |->
                          IF (day - (7 - k)) \in DOMAIN log
                          THEN SumField(log[day - (7 - k)], "calories") ELSE 0]]

\* main, "Quick Stats": today's calories are divided by the stored calorie
\* target when today is a key of the log and the calories are positive; a
\* target of 0 makes the division raise ZeroDivisionError.
QuickStatsRaises(log, day, profile) ==
    /\ day \in DOMAIN log
    /\ SumField(log[day], "calories") > 0
    /\ profile["daily_calories"] = 0

\* The targets show_dashboard divides today's totals by, "Target Progress".
ProgressTargets == {"daily_calories", "daily_protein", "daily_carbs", "daily_fat"}

\* show_dashboard, "Target Progress": when today is a key of the log, each
\* total (0 included) is divided by its stored target; a target of 0 makes
\* the division raise ZeroDivisionError.
ProgressRaises(log, day, profile) ==
    /\ day \in DOMAIN log
    /\ \E k \in ProgressTargets : profile[k] = 0

\* show_dashboard rendered, or ended by the exception that nothing catches.
ShowDashboard ==
    /\ IF ProgressRaises(daily_entries, today, user_profile)
       THEN /\ output' = NoOutput
            /\ status' = "ZeroDivisionError"
       ELSE /\ output' = [page |-> "dashboard", date |-> today,
                          totals |-> aggregate(daily_entries, today),
                          weekly_chart |-> create_weekly_trend_chart(daily_entries, today)]
            /\ status' = ""
    /\ UNCHANGED <<food_database, daily_entries, user_profile, weekly_goals, today, download>>

\* range(30) of the streak loop.
StreakWindow == 30

\* A plausible slip: the upper end of the band left out of the test.
InBand_NoUpperBound(daily, target) ==
    9 * target * (NutritionScale \div 10) <= daily

\* 0.9 * target <= daily <= 1.1 * target, daily in 1/NutritionScale kcal.
InBand(daily, target) ==
    /\ 9 * target * (NutritionScale \div 10) <= daily
    /\ daily <= 11 * target * (NutritionScale \div 10)

\* A plausible slip: the walk not cut at the window, running until a day
\* breaks it.
RECURSIVE StreakLoop_NoWindow(_, _, _, _)
StreakLoop_NoWindow(log, day, target, i) ==
    IF (day - i) \in DOMAIN log
    THEN IF InBand(SumField(log[day - i], "calories"), target)
         THEN 1 + StreakLoop_NoWindow(log, day, target, i + 1)
         ELSE 0
    ELSE 0

\* A plausible slip: an absent day skipped instead of ending the walk.
RECURSIVE StreakLoop_SkipAbsent(_, _, _, _)
StreakLoop_SkipAbsent(log, day, target, i) ==
    IF i >= StreakWindow THEN 0
    ELSE IF (day - i) \in DOMAIN log
    THEN IF InBand(SumField(log[day - i], "calories"), target)
         THEN 1 + StreakLoop_SkipAbsent(log, day, target, i + 1)
         ELSE 0
    ELSE StreakLoop_SkipAbsent(log, day, target, i + 1)

\* show_goals: the loop over i in range(30) from step i on; it breaks at the
\* first day that is absent or out of band.
RECURSIVE StreakLoop(_, _, _, _)
StreakLoop(log, day, target, i) ==
    IF i >= StreakWindow THEN 0
    ELSE IF (day - i) \in DOMAIN log
    THEN IF InBand(SumField(log[day - i], "calories"), target)
         THEN 1 + StreakLoop(log, day, target, i + 1)
         ELSE 0
    ELSE 0

streak(log, day, target) == StreakLoop(log, day, target, 0)

\* A plausible slip: the streak badges as an elif chain, highest first.
badges_ElifChain(log, day, profile, streak_days) ==
    (IF streak_days >= 100 THEN <<"Century Champion">>
     ELSE IF streak_days >= 30 THEN <<"Month Master">>
     ELSE IF streak_days >= 7 THEN <<"Week Warrior">> ELSE <<>>)
    \o (IF day \in DOMAIN log
        THEN (IF SumField(log[day], "protein") * 9 >= profile["daily_protein"] * 250
              THEN <<"Protein Power">> ELSE <<>>)
             \o (IF SumField(log[day], "fiber") >= 25 * NutritionScale
                 THEN <<"Fiber Champion">> ELSE <<>>)
        ELSE <<>>)

\* show_goals, "Badges & Milestones": the list badges.  Protein totals are in
\* 1/NutritionScale g and the target in 1/MacroScale g: total >= target is
\* 9 * total >= 250 * target.
badges(log, day, profile, streak_days) ==
    (IF streak_days >= 7 THEN <<"Week Warrior">> ELSE <<>>)
    \o (IF streak_days >= 30 THEN <<"Month Master">> ELSE <<>>)
    \o (IF streak_days >= 100 THEN <<"Century Champion">> ELSE <<>>)
    \o (IF day \in DOMAIN log
        THEN (IF SumField(log[day], "protein") * 9 >= profile["daily_protein"] * 250
              THEN <<"Protein Power">> ELSE <<>>)
             \o (IF SumField(log[day], "fiber") >= 25 * NutritionScale
                 THEN <<"Fiber Champion">> ELSE <<>>)
        ELSE <<>>)

\* show_goals, "Insights": recent_days, the calories of those of the days
\* day, day - 1, ..., day - 6 that are keys of the log, from step i on.
RECURSIVE recent_days(_, _, _)
recent_days(log, day, i) ==
    IF i >= 7 THEN <<>>
    ELSE (IF (day - i) \in DOMAIN log
          THEN <<SumField(log[day - i], "calories")>> ELSE <<>>)
         \o recent_days(log, day, i + 1)

RECURSIVE SeqSum(_)
SeqSum(seq) == IF seq = <<>> THEN 0 ELSE Head(seq) + SeqSum(Tail(seq))

\* avg < target * 0.9 and avg > target * 1.1 for avg = total / count, the
\* total in 1/NutritionScale kcal.
Classify(total, count, target) ==
    IF total < 9 * target * count * (NutritionScale \div 10) THEN "below"
    ELSE IF total > 11 * target * count * (NutritionScale \div 10) THEN "above"
    ELSE "on"

\* A plausible slip: the week's total divided by 7, absent days counted as 0.
insight_ZeroFilled(log, day, target) ==
    IF Cardinality(DOMAIN log) >= 7
    THEN LET recent == recent_days(log, day, 0)
         IN IF recent # <<>> THEN Classify(SeqSum(recent), 7, target) ELSE "none"
    ELSE "none"

\* show_goals, "Insights": the message shown, "none" when there is none.
insight(log, day, target) ==
    IF Cardinality(DOMAIN log) >= 7
    THEN LET recent == recent_days(log, day, 0)
         IN IF recent # <<>>
            THEN Classify(SeqSum(recent), Len(recent), target)
            ELSE "none"
    ELSE "none"

\* show_goals rendered.
ShowGoals ==
    /\ LET streak_days == streak(daily_entries, today, user_profile["daily_calories"])
       IN output' = [page |-> "goals", date |-> today,
                     streak |-> streak_days,
                     badges |-> badges(daily_entries, today, user_profile, streak_days),
                     insight |-> insight(daily_entries, today,
                                         user_profile["daily_calories"])]
    /\ status' = ""
    /\ UNCHANGED <<food_database, daily_entries, user_profile, weekly_goals, today, download>>

\* ---------------------------------------------------------- Analytics page
\* The empty dict {} of category_totals.
NoCategories == [c \in {} |-> [calories |-> 0, count |-> 0]]

\* A plausible slip: an entry whose food the catalog lacks counted as "Other".
AddCategoryEntry_Unresolved(category_totals, entry, catalog) ==
    LET category == IF entry.food_name \in DOMAIN catalog
                    THEN get_category(catalog[entry.food_name]) ELSE "Other"
        current == IF category \in DOMAIN category_totals
                   THEN category_totals[category]
                   ELSE [calories |-> 0, count |-> 0]
    IN DictSet(category_totals, category,
               [calories |-> current.calories + entry.nutrition.calories,
                count |-> current.count + 1])

\* The body of the inner loop of "Food Category Analysis" for one entry.
AddCategoryEntry(category_totals, entry, catalog) ==
    IF entry.food_name \in DOMAIN catalog
    THEN LET category == get_category(catalog[entry.food_name])
             current == IF category \in DOMAIN category_totals
                        THEN category_totals[category]
                        ELSE [calories |-> 0, count |-> 0]
         IN DictSet(category_totals, category,
                    [calories |-> current.calories + entry.nutrition.calories,
                     count |-> current.count + 1])
    ELSE category_totals

\* The inner loop over the entries of one date.
RECURSIVE AddCategoryEntries(_, _, _)
AddCategoryEntries(category_totals, entries, catalog) ==
    IF entries = <<>> THEN category_totals
    ELSE AddCategoryEntries(AddCategoryEntry(category_totals, Head(entries), catalog),
                            Tail(entries), catalog)

\* The outer loop over filtered_entries.values(), earliest date first.
RECURSIVE AddCategoryDates(_, _, _, _)
AddCategoryDates(category_totals, log, dates, catalog) ==
    IF dates = {} THEN category_totals
    ELSE LET d == CHOOSE x \in dates : \A y \in dates : x <= y
         IN AddCategoryDates(AddCategoryEntries(category_totals, log[d], catalog),
                             log, dates \ {d}, catalog)

\* filtered_entries: the dates of the log with start_date <= date <= end_date.
filtered_entries(log, start_date, end_date) ==
    { d \in DOMAIN log : start_date <= d /\ d <= end_date }

\* show_analytics rendered for a date range: it stops with a message when
\* the log is empty or no date is in the range, and otherwise computes
\* category_totals.
ShowAnalytics(start_date, end_date) ==
    /\ output' =
          [page |-> "analytics", start_date |-> start_date, end_date |-> end_date,
           message |->
              IF DOMAIN daily_entries = {} THEN "No data available yet"
              ELSE IF filtered_entries(daily_entries, start_date, end_date) = {}
              THEN "No data found for the selected date range"
              ELSE "",
           category_totals |->
              AddCategoryDates(NoCategories, daily_entries,
                               filtered_entries(daily_entries, start_date, end_date),
                               food_database)]
    /\ status' = ""
    /\ UNCHANGED <<food_database, daily_entries, user_profile, weekly_goals, today, download>>

\* ------------------------------------------------------------------ clock
\* Midnight passes: datetime.now() is in the next day.
Tick ==
    /\ today < MaxDay
    /\ today' = today + 1
    /\ UNCHANGED <<food_database, daily_entries, user_profile, weekly_goals,
                   status, output, download>>

\* ---------------------------------------------------------- specification
AddStep ==
    \E f \in FoodInputs, g \in ServingInputs, m \in MealInputs :
        AddToFoodLog(f, g, m[1], m[2])
RemoveStep ==
    \E i \in 0..MaxEntries : 
        /\ today \in DOMAIN daily_entries
        /\ i <= Len(daily_entries[today])
        /\ RemoveEntry(i)
CustomFoodStep ==
    \E n \in NameInputs, c \in CustomInputs :
        AddCustomFood(n, c[1], c[2], c[3], c[4], c[5], c[6], c[7])
SaveProfileStep ==
    \E p \in ProfileInputs : SaveProfile(p[1], p[2], p[3], p[4], p[5], p[6], p[7])
SaveGoalsStep ==
    \E g \in GoalInputs : SaveGoals(g[1], g[2], g[3])
ImportStep ==
    \E file \in Documents : ImportData(file)

Next ==
    \/ AddStep
    \/ RemoveStep
    \/ CustomFoodStep
    \/ SaveProfileStep
    \/ SaveGoalsStep
    \/ ImportStep
    \/ ClearAllFoodEntries
    \/ ResetProfile
    \/ ShowDashboard
    \/ ShowGoals
    \/ Tick

Spec == Init /\ [][Next]_vars

\* The commands of the Food Entry, Dashboard, Profile and Goals pages and the
\* custom-food form, without import, clearing and reset.
NextLocal ==
    \/ AddStep
    \/ RemoveStep
    \/ CustomFoodStep
    \/ SaveProfileStep
    \/ SaveGoalsStep
    \/ Tick

SpecLocal == Init /\ [][NextLocal]_vars

\* An uploaded file that holds a log and nothing else.
ImportLogStep ==
    \E file \in Documents :
        /\ file.kind = "object"
        /\ DOMAIN file.data = {"daily_entries", "export_timestamp"}
        /\ ImportData(file)

\* The commands that change the profile, the log or the goals, with export
\* and the import of an exported file.
NextRoundTrip ==
    \/ AddStep
    \/ RemoveStep
    \/ SaveProfileStep
    \/ SaveGoalsStep
    \/ ImportLogStep
    \/ ClearAllFoodEntries
    \/ ResetProfile
    \/ ExportAllData
    \/ ImportDownload

SpecRoundTrip == Init /\ [][NextRoundTrip]_vars

\* The dates the two date inputs of the Analytics page are set to.
DateInputs == (-1)..MaxDay

ShowAnalyticsStep ==
    \E start_date \in DateInputs, end_date \in DateInputs :
        ShowAnalytics(start_date, end_date)

\* The commands that change the log or the catalog, and the Analytics page.
NextAnalytics ==
    \/ AddStep
    \/ CustomFoodStep
    \/ ImportLogStep
    \/ Tick
    \/ ShowAnalyticsStep

SpecAnalytics == Init /\ [][NextAnalytics]_vars

\* ------------------------------------- validate_serving_size on raw inputs
StringInputs ==
    { <<"a", "b", "c">>, <<>>, <<"0", ".", "1">>, <<"1", "0", "0", "0", "0">>,
      <<"1", "0", "0", "0", "1">>, <<"0">>, <<"-", "5">>, <<"n", "a", "n">>,
      <<"i", "n", "f">>, <<"-", "i", "n", "f">>, <<"+", "7">>, <<"1", ".">>,
      <<".", "5">>, <<"1", ".", "2", ".", "3">>, <<"-", "-", "1">>,
      <<"i", "n", "f", "i", "n", "i", "t", "y">>, <<"1", "0", "0", "0", "0", ".", "1">> }

RawInputs ==
    { RawFloat(Fin(n)) : n \in (-MaxRaw)..MaxRaw }
    \cup { RawFloat(Fin(ServingLimitGrams * 10 + n)) : n \in (-MaxRaw)..MaxRaw }
    \cup { RawFloat(NaN), RawFloat(Inf(1)), RawFloat(Inf(-1)), RawNone }
    \cup { RawStr(s) : s \in StringInputs }

\* validate_serving_size called on a raw value.
ValidateServing ==
    /\ \E raw \in RawInputs :
          output' = [page |-> "validate", raw |-> raw,
                     result |-> validate_serving_size(raw)]
    /\ status' = ""
    /\ UNCHANGED <<food_database, daily_entries, user_profile, weekly_goals, today, download>>

SpecValidate == Init /\ [][ValidateServing]_vars

\* ------------------------------------------------ streak on long histories
\* Histories as an import can bring them: `run` days ending today with calories
\* inside the band (on its lower edge, at the target, on its upper edge, in
\* turn), then a day that breaks the run, then possibly one more in-band day.
StreakTargets == {2000, 1800}
Breakers == {"absent", "low", "high", "empty"}

LowerEdge(target) == 9 * target * (NutritionScale \div 10)
UpperEdge(target) == 11 * target * (NutritionScale \div 10)

CaloriesEntry(calories) ==
    LogEntry("12:00", "Lunch", "Pizza", 3000,
             [calories |-> calories, protein |-> 0, carbs |-> 0, fat |-> 0,
              fiber |-> 0, sugar |-> 0])

\* A day totalling `calories`: one entry, or two on every other day.
DayOf(calories, i) ==
    IF i % 2 = 0 THEN <<CaloriesEntry(calories)>>
    ELSE <<CaloriesEntry(calories - 7), CaloriesEntry(7)>>

BandCalories(i, target) ==
    CASE i % 3 = 0 -> LowerEdge(target)
      [] i % 3 = 1 -> target * NutritionScale
      [] OTHER -> UpperEdge(target)

History(run, breaker, tail, target) ==
    [d \in { -i : i \in 0..(run - 1) }
            \cup (IF breaker = "absent" THEN {} ELSE { -run })
            \cup (IF tail THEN { -(run + 1) } ELSE {}) |->
        IF -d < run THEN DayOf(BandCalories(-d, target), -d)
        ELSE IF -d = run
        THEN CASE breaker = "low" -> DayOf(LowerEdge(target) - 1, -d)
               [] breaker = "high" -> DayOf(UpperEdge(target) + 1, -d)
               [] OTHER -> <<>>
        ELSE DayOf(target * NutritionScale, -d)]

InitStreak ==
    /\ \E run \in 0..MaxRun, breaker \in Breakers, tail \in BOOLEAN,
          target \in StreakTargets :
          /\ daily_entries = History(run, breaker, tail, target)
          /\ user_profile = [DefaultProfile EXCEPT !.daily_calories = target]
    /\ food_database = create_food_database
    /\ weekly_goals = DefaultGoals
    /\ today = 0
    /\ status = ""
    /\ output = NoOutput
    /\ download = NoFile

SpecStreak == InitStreak /\ [][ShowGoals]_vars

\* -------------------------------------------- badges on long histories
\* Protein and fiber of today's entries (1/NutritionScale g): none, just
\* short of 90 g and of 25 g, and exactly those.
ProteinInputs == {0, 90 * NutritionScale - 1, 90 * NutritionScale}
FiberInputs == {0, 25 * NutritionScale - 1, 25 * NutritionScale}
\* Protein targets of the profile (1/MacroScale g): 90 g, and the 0 an
\* imported profile can hold.
ProteinTargets == {0, 90 * MacroScale}

\* A history whose entries of today carry the given protein and fiber.
GoalsHistory(run, breaker, target, protein, fiber) ==
    LET h == History(run, breaker, FALSE, target)
    IN [d \in DOMAIN h |->
          IF d = 0
          THEN [i \in 1..Len(h[d]) |->
                  [h[d][i] EXCEPT !.nutrition.protein = protein,
                                  !.nutrition.fiber = fiber]]
          ELSE h[d]]

InitGoals ==
    /\ \E run \in 0..MaxRun, breaker \in Breakers, protein \in ProteinInputs,
          fiber \in FiberInputs, target_protein \in ProteinTargets :
          /\ daily_entries = GoalsHistory(run, breaker, 2000, protein, fiber)
          /\ user_profile = [DefaultProfile EXCEPT !.daily_protein = target_protein]
    /\ food_database = create_food_database
    /\ weekly_goals = DefaultGoals
    /\ today = 0
    /\ status = ""
    /\ output = NoOutput
    /\ download = NoFile

SpecGoals == InitGoals /\ [][ShowGoals]_vars

\* ------------------------------------------- the last week of a history
\* Logs as an import can bring them: any of the last 7 days present, all at
\* one calorie level (just below the band, on its edges, at the target, just
\* above, varying by day, or with empty buckets), and up to MaxOld older
\* days.
WeekLevels == {"low", "lower_edge", "on", "upper_edge", "high", "ramp", "empty"}

LevelCalories(level, i, target) ==
    CASE level = "low" -> LowerEdge(target) - 1
      [] level = "lower_edge" -> LowerEdge(target)
      [] level = "upper_edge" -> UpperEdge(target)
      [] level = "high" -> UpperEdge(target) + 1
      [] level = "ramp" -> target * NutritionScale + (i - 3) * 1000
      [] OTHER -> target * NutritionScale

WeekHistory(present, level, old, target) ==
    [d \in { -i : i \in present } \cup { -(6 + j) : j \in 1..old } |->
        IF -d > 6 THEN DayOf(target * NutritionScale, -d)
        ELSE IF level = "empty" THEN <<>>
        ELSE DayOf(LevelCalories(level, -d, target), -d)]

InitWeek ==
    /\ \E present \in SUBSET (0..6), level \in WeekLevels, old \in 0..MaxOld :
          daily_entries = WeekHistory(present, level, old, 2000)
    /\ user_profile = DefaultProfile
    /\ food_database = create_food_database
    /\ weekly_goals = DefaultGoals
    /\ today = 0
    /\ status = ""
    /\ output = NoOutput
    /\ download = NoFile

SpecWeek == InitWeek /\ [][ShowGoals \/ ShowDashboard]_vars

\* Values the number inputs and select boxes of show_profile can hold: the
\* ends of their ranges and values in between.  Weights and heights are in
\* tenths.
WeightInputs == {10, 25, 600, 700, 701, 5000}
HeightInputs == {500, 1352, 1650, 1700, 2500}
AgeInputs == {1, 19, 25, 30, 96, 120}
GenderInputs == {"Male", "Female"}
ActivityInputs == {"Sedentary", "Light", "Moderate", "Active", "Very Active"}
GoalChoices == {"Lose Weight", "Maintain Weight", "Gain Weight"}

\* The gender select box: 'Male' when the profile says so or has no gender.
FormGender(profile) ==
    IF "gender" \in DOMAIN profile /\ profile["gender"] # "Male"
    THEN "Female" ELSE "Male"

\* show_profile rendered, the form holding the values of the stored profile:
\* the BMR and the calculated targets it shows.  An activity level the select
\* box lacks makes list.index raise ValueError.
ShowProfile ==
    /\ IF user_profile["activity_level"] \in ActivityInputs
       THEN /\ output' =
                  [page |-> "profile",
                   weight |-> user_profile["weight"],
                   height |-> user_profile["height"],
                   age |-> user_profile["age"],
                   gender |-> FormGender(user_profile),
                   activity_level |-> user_profile["activity_level"],
                   goal |-> user_profile["goal"],
                   bmr |-> calculate_bmr(user_profile["weight"], user_profile["height"],
                                         user_profile["age"], FormGender(user_profile)),
                   targets |-> CalculatedTargets(
                                  user_profile["weight"], user_profile["height"],
                                  user_profile["age"], FormGender(user_profile),
                                  user_profile["activity_level"], user_profile["goal"])]
            /\ status' = ""
       ELSE /\ output' = NoOutput
            /\ status' = "ValueError"
    /\ UNCHANGED <<food_database, daily_entries, user_profile, weekly_goals, today, download>>

\* calculate_daily_calories called on the BMR of the profile's body metrics
\* and on its activity level, which the table may lack.
CallDailyCalories ==
    /\ LET bmr == calculate_bmr(user_profile["weight"], user_profile["height"],
                               user_profile["age"], FormGender(user_profile))
       IN output' = [page |-> "daily_calories", bmr |-> bmr,
                     activity_level |-> user_profile["activity_level"],
                     result |-> calculate_daily_calories(
                                    bmr, user_profile["activity_level"])]
    /\ status' = ""
    /\ UNCHANGED <<food_database, daily_entries, user_profile, weekly_goals, today, download>>

\* Profiles as a save or an import can leave them: any of the form's values,
\* with or without a gender, or an activity level only an import can bring.
InitTargets ==
    /\ \E weight \in WeightInputs, height \in HeightInputs, age \in AgeInputs,
          gender \in GenderInputs \cup {"none"},
          activity_level \in ActivityInputs \cup {"Extreme"}, goal \in GoalChoices :
          LET stored == [DefaultProfile EXCEPT
                            !.weight = weight, !.height = height, !.age = age,
                            !.activity_level = activity_level, !.goal = goal]
          IN user_profile = IF gender = "none" THEN stored
                            ELSE DictUpdate(stored, [gender |-> gender])
    /\ food_database = create_food_database
    /\ daily_entries = EmptyLog
    /\ weekly_goals = DefaultGoals
    /\ today = 0
    /\ status = ""
    /\ output = NoOutput
    /\ download = NoFile

SpecTargets == InitTargets /\ [][ShowProfile \/ CallDailyCalories]_vars

\* ------------------------------------------- targets saved from the form
\* Values of the profile form at and near the ends of the widgets' ranges:
\* age 1..120, weight 1.0..500.0 kg, height 50.0..250.0 cm (in tenths).
FormAges == {1, 32, 120}
FormWeights == {10, 5000}
FormHeights == {500, 2500}
FormActivities == {"Sedentary", "Very Active"}

\* "Save Profile" pressed with the form filled in.
SaveFormStep ==
    \E age \in FormAges, weight \in FormWeights, height \in FormHeights,
       gender \in GenderInputs, activity_level \in FormActivities,
       goal \in GoalChoices :
        SaveProfile("User", age, weight, height, gender, activity_level, goal)

\* main: every script run renders the sidebar before the page, so a run in
\* which Quick Stats raises ends there, whatever page or button it was for.
QuickStatsError ==
    /\ QuickStatsRaises(daily_entries, today, user_profile)
    /\ status' = "ZeroDivisionError"
    /\ output' = NoOutput
    /\ UNCHANGED <<food_database, daily_entries, user_profile, weekly_goals, today, download>>

\* The sidebar rendered without an exception; the page follows.
QuickStatsShown == ~QuickStatsRaises(daily_entries, today, user_profile)

\* The profile, food entry and dashboard pages behind the sidebar.
ProfilePageSave == QuickStatsShown /\ SaveFormStep
FoodEntryPageAdd == QuickStatsShown /\ AddStep
DashboardPageRemove == QuickStatsShown /\ RemoveStep
DashboardPage == QuickStatsShown /\ ShowDashboard

NextProgress ==
    \/ QuickStatsError
    \/ ProfilePageSave
    \/ FoodEntryPageAdd
    \/ DashboardPageRemove
    \/ DashboardPage

SpecProgress == Init /\ [][NextProgress]_vars

\* ================================================================= claims

\* The per-100g value of a profile that a snapshot field is computed from.
PerHundred(food, field) ==
    IF field = "calories" THEN food.calories_per_100g ELSE food[field]

ErrorKinds ==
    {"InvalidServingSizeError", "TypeError", "IndexError", "ImportError",
     "DuplicateNameError"}

\* C1: under add, remove, custom-food insert, save-profile and save-goals,
\* every logged entry names a catalog food and each of the six fields of its
\* snapshot is that food's per-100g value times servingGrams / 100 (here:
\* the value in hundredths times the serving in tenths, in 1/NutritionScale),
\* in every state: the snapshot stays what the add action computed.
C1_SnapshotIsProfileTimesServing ==
    \A d \in DOMAIN daily_entries : \A i \in 1..Len(daily_entries[d]) :
        LET e == daily_entries[d][i]
        IN /\ e.food_name \in DOMAIN food_database
           /\ DOMAIN e.nutrition = NutritionFields
           /\ \A f \in NutritionFields :
                e.nutrition[f]
                    = PerHundred(food_database[e.food_name], f) * e.serving_size

\* C1 witness: an Oats entry and an entry of the custom food Kale are logged,
\* a later day has come and the profile has been saved since.
C1_Witness ==
    /\ today = 1
    /\ 0 \in DOMAIN daily_entries
    /\ \E i \in 1..Len(daily_entries[0]) : daily_entries[0][i].food_name = "Kale"
    /\ \E i \in 1..Len(daily_entries[0]) :
          /\ daily_entries[0][i].food_name = "Oats"
          /\ daily_entries[0][i].nutrition["sugar"] = 99 * 5000
    /\ user_profile["name"] = "Ann"

\* C2: a step whose command ends in an error (any of the error kinds reported)
\* leaves the profile, the log with its date keys, the goals and the catalog
\* exactly as they were.
C2_ErrorLeavesStateUnchanged ==
    [][status' \in ErrorKinds =>
         UNCHANGED <<user_profile, daily_entries, weekly_goals, food_database>>]_vars

\* C2 witness: an add was rejected for its serving size on a day that has no
\* bucket yet, while an earlier day has entries.
C2_Witness ==
    /\ status = "InvalidServingSizeError"
    /\ today = 1
    /\ 1 \notin DOMAIN daily_entries
    /\ 0 \in DOMAIN daily_entries
    /\ Len(daily_entries[0]) > 0

\* C3 (as claimed): validate_serving_size returns the parsed number exactly
\* when the input is numeric with 0 < value <= 10000, and raises
\* InvalidServingSizeError for every other input.
C3_ValidateExactlyInRange ==
    output.page = "validate" =>
        LET parsed == ToFloat(output.raw)
            inRange == /\ parsed.exc = ""
                       /\ parsed.f.cls = "fin"
                       /\ 0 < parsed.f.v
                       /\ parsed.f.v <= ServingLimitGrams * 10
        IN /\ output.result.ok <=> inRange
           /\ output.result.ok => output.result.size = parsed.f
           /\ ~output.result.ok => output.result.exc = "InvalidServingSizeError"

\* C4: a catalog insert succeeds exactly when the name is non-empty and not a
\* key of the catalog; on success the catalog is the old one plus the new
\* profile under that name, on failure it is unchanged; and no step of the
\* program removes or changes a profile the catalog already holds (each kept
\* under its own name).
C4_CatalogInsert ==
    [][/\ \A n \in NameInputs, c \in CustomInputs :
            AddCustomFood(n, c[1], c[2], c[3], c[4], c[5], c[6], c[7]) =>
                IF n # "" /\ n \notin DOMAIN food_database
                THEN /\ status' = "success"
                     /\ DOMAIN food_database' = DOMAIN food_database \cup {n}
                     /\ food_database'[n].name = n
                     /\ get_category(food_database'[n]) = c[1]
                     /\ \A f \in NutritionFields :
                           PerHundred(food_database'[n], f)
                               = (CASE f = "calories" -> c[2] [] f = "protein" -> c[3]
                                    [] f = "carbs" -> c[4] [] f = "fat" -> c[5]
                                    [] f = "fiber" -> c[6] [] OTHER -> c[7])
                ELSE /\ status' = "DuplicateNameError"
                     /\ food_database' = food_database
       /\ \A m \in DOMAIN food_database :
            m \in DOMAIN food_database' /\ food_database'[m] = food_database[m]]_vars

\* C4 witness: Kale was inserted, and a later insert was refused.
C4_Witness ==
    /\ "Kale" \in DOMAIN food_database
    /\ status = "DuplicateNameError"

\* The bucket of a date, empty when the date is not a key.
BucketOf(log, d) == IF d \in DOMAIN log THEN log[d] ELSE <<>>

\* C5: a successful add makes today a key of the log and puts the new entry
\* last in today's sequence; the entries already there keep their content and
\* order, and every other date keeps its sequence.
C5_AppendAtEnd ==
    [][\A f \in FoodInputs, g \in ServingInputs, m \in MealInputs :
         (status' = "success" /\ AddToFoodLog(f, g, m[1], m[2])) =>
            LET old == BucketOf(daily_entries, today)
                new == daily_entries'[today]
            IN /\ DOMAIN daily_entries' = DOMAIN daily_entries \cup {today}
               /\ Len(new) = Len(old) + 1
               /\ \A i \in 1..Len(old) : new[i] = old[i]
               /\ new[Len(new)].food_name = f
               /\ new[Len(new)].serving_size = g
               /\ new[Len(new)].meal = m[1]
               /\ new[Len(new)].time = m[2]
               /\ \A d \in DOMAIN daily_entries \ {today} :
                     daily_entries'[d] = daily_entries[d]]_vars

\* C5 witness: an add has put a second entry behind a different first one on
\* the second day, an earlier day holding entries of its own.
C5_Witness ==
    /\ status = "success"
    /\ today = 1
    /\ DOMAIN daily_entries = {0, 1}
    /\ Len(daily_entries[0]) = 1
    /\ Len(daily_entries[1]) = 2
    /\ daily_entries[1][1].food_name = "Kale"
    /\ daily_entries[1][2].food_name = "Oats"

\* C6: removing at a valid index (0 <= index < length) deletes exactly the
\* entry at that position: the entries before it stay in place, those after
\* it move up by one, and every other date is unchanged; at an invalid index
\* the removal fails with IndexError and the log is unchanged.
C6_RemoveAtIndex ==
    [][\A k \in 0..(MaxEntries + 1) :
         RemoveEntry(k) =>
            LET old == daily_entries[today]
                new == daily_entries'[today]
            IN IF k < Len(old)
               THEN /\ DOMAIN daily_entries' = DOMAIN daily_entries
                    /\ Len(new) = Len(old) - 1
                    /\ \A i \in 1..k : new[i] = old[i]
                    /\ \A i \in (k + 1)..Len(new) : new[i] = old[i + 1]
                    /\ \A d \in DOMAIN daily_entries \ {today} :
                          daily_entries'[d] = daily_entries[d]
                    /\ status' # "IndexError"
               ELSE /\ status' = "IndexError"
                    /\ daily_entries' = daily_entries]_vars

\* C6 witness: a removal has left two of three entries on the second day, in
\* an order that only deleting the middle one gives.
C6_Witness ==
    /\ status = ""
    /\ output = NoOutput
    /\ today = 1
    /\ 1 \in DOMAIN daily_entries
    /\ Len(daily_entries[1]) = 2
    /\ daily_entries[1][1].food_name = "Oats"
    /\ daily_entries[1][2].food_name = "Kale"
    /\ TotalEntries(daily_entries) = 2

\* One entry appended to one date's sequence, nothing else changed.
AppendOne(old, new) ==
    \E d \in DOMAIN new :
        /\ DOMAIN new = DOMAIN old \cup {d}
        /\ Len(new[d]) = Len(BucketOf(old, d)) + 1
        /\ \A i \in 1..Len(BucketOf(old, d)) : new[d][i] = old[d][i]
        /\ \A e \in DOMAIN old \ {d} : new[e] = old[e]

\* One entry removed from one date's sequence, nothing else changed.
RemoveOne(old, new) ==
    /\ DOMAIN new = DOMAIN old
    /\ \E d \in DOMAIN old : \E k \in 1..Len(old[d]) :
        /\ Len(new[d]) = Len(old[d]) - 1
        /\ \A i \in 1..(k - 1) : new[d][i] = old[d][i]
        /\ \A i \in k..Len(new[d]) : new[d][i] = old[d][i + 1]
        /\ \A e \in DOMAIN old \ {d} : new[e] = old[e]

\* C7 (as claimed): every step leaves the daily log as it was, appends one
\* entry to one date's sequence or removes one entry from one date's sequence.
C7_OnlyAppendOrRemove ==
    [][\/ daily_entries' = daily_entries
       \/ AppendOne(daily_entries, daily_entries')
       \/ RemoveOne(daily_entries, daily_entries')]_vars

\* C7 (amended): every step leaves the daily log as it was, appends one entry
\* to one date's sequence, removes one entry from one date's sequence, is
\* Clear All Food Entries (the log becomes empty) or is an import of a document
\* that has daily_entries (the log becomes the document's).
C7_AppendRemoveClearOrImport ==
    [][\/ daily_entries' = daily_entries
       \/ AppendOne(daily_entries, daily_entries')
       \/ RemoveOne(daily_entries, daily_entries')
       \/ (daily_entries' = EmptyLog /\ ClearAllFoodEntries)
       \/ \E file \in Documents :
            /\ file.kind = "object"
            /\ "daily_entries" \in DOMAIN file.data
            /\ daily_entries' = file.data["daily_entries"]
            /\ ImportData(file)]_vars

\* C7 witness: an import has replaced the log by the document's, the custom
\* food still in the catalog and the goals untouched.
C7_Witness ==
    /\ daily_entries \in ImportedLogs
    /\ -1 \in DOMAIN daily_entries
    /\ status = "success"
    /\ "Kale" \in DOMAIN food_database
    /\ weekly_goals = DefaultGoals

\* The sum of a snapshot field over the first n entries of a sequence.
RECURSIVE SumUpTo(_, _, _)
SumUpTo(entries, n, field) ==
    IF n = 0 THEN 0
    ELSE SumUpTo(entries, n - 1, field) + entries[n].nutrition[field]

\* C8 (as claimed): the totals the dashboard computes for its date are the
\* element-wise sum of the entries' snapshots, all six fields of them, and
\* all zero when the date is absent or its bucket empty.
C8_TotalsAreElementwiseSum ==
    output.page = "dashboard" =>
        LET bucket == BucketOf(daily_entries, output.date)
        IN /\ DOMAIN output.totals = NutritionFields
           /\ \A f \in NutritionFields :
                output.totals[f] = SumUpTo(bucket, Len(bucket), f)

\* C8 (amended): when the date is a key of the log the totals are, for each of
\* calories, protein, carbs, fat and fiber (sugar is not totalled), the sum of
\* that field over the snapshots of the date's entries, all zero for an empty
\* bucket; when the date is absent the dashboard shows zero calories,
\* protein, carbs and fat and no error.
C8_TotalsAreSumOfFiveFields ==
    output.page = "dashboard" =>
        LET bucket == BucketOf(daily_entries, output.date)
        IN IF output.date \in DOMAIN daily_entries
           THEN /\ DOMAIN output.totals = NutritionFields \ {"sugar"}
                /\ \A f \in NutritionFields \ {"sugar"} :
                     output.totals[f] = SumUpTo(bucket, Len(bucket), f)
                /\ bucket = <<>> =>
                     \A f \in NutritionFields \ {"sugar"} : output.totals[f] = 0
           ELSE output.totals = [f \in {"calories", "protein", "carbs", "fat"} |-> 0]

\* C8 witness: the dashboard shows the totals of a day that holds two imported
\* entries and an added one.
C8_Witness ==
    /\ output.page = "dashboard"
    /\ output.date = today
    /\ today \in DOMAIN daily_entries
    /\ Len(daily_entries[today]) = 3
    /\ daily_entries[today][1] = PizzaEntry
    /\ daily_entries[today][3].food_name = "Oats"
    /\ output.totals["calories"] = (1900 + 80) * NutritionScale + 38900 * 5000

\* Whether day `day - i` is a key of the log with total calories inside
\* [0.9 * target, 1.1 * target].
DayCounts(log, day, target, i) ==
    /\ (day - i) \in DOMAIN log
    /\ LowerEdge(target) <= SumUpTo(log[day - i], Len(log[day - i]), "calories")
    /\ SumUpTo(log[day - i], Len(log[day - i]), "calories") <= UpperEdge(target)

\* C9: the streak shown is the length of the run of consecutive days ending
\* today that are all in the log with calories inside the band (bounds
\* included), cut at 30: every day counted qualifies, and the walk ended at
\* 30 days or at a day that is absent or out of band.  Three such days before
\* an absent one give 3, and today absent gives 0.
C9_StreakIsCappedRun ==
    output.page = "goals" =>
        LET target == user_profile["daily_calories"]
            n == output.streak
        IN /\ n \in 0..StreakWindow
           /\ \A i \in 0..(n - 1) : DayCounts(daily_entries, output.date, target, i)
           /\ n = StreakWindow \/ ~DayCounts(daily_entries, output.date, target, n)
           /\ (daily_entries = History(3, "absent", FALSE, target)) => n = 3
           /\ (0 \notin DOMAIN daily_entries) => n = 0

\* C9 witness: 31 in-band days end today and the streak shown is 30.
C9_Witness ==
    /\ output.page = "goals"
    /\ output.streak = StreakWindow
    /\ DayCounts(daily_entries, 0, user_profile["daily_calories"], StreakWindow)

\* C10: a successful import replaces each of the profile, the log and the
\* goals by the document's value when the document has its key, leaves it
\* exactly as it was when the key is missing, and never changes the catalog.
C10_ImportPerKey ==
    [][\A file \in Documents :
         (status' = "success" /\ ImportData(file)) =>
            LET has(key) == file.kind = "object" /\ key \in DOMAIN file.data
            IN /\ user_profile' = IF has("user_profile")
                                   THEN file.data["user_profile"] ELSE user_profile
               /\ daily_entries' = IF has("daily_entries")
                                    THEN file.data["daily_entries"] ELSE daily_entries
               /\ weekly_goals' = IF has("weekly_goals")
                                   THEN file.data["weekly_goals"] ELSE weekly_goals
               /\ food_database' = food_database]_vars

\* C10 witness: the goals are the imported ones while the saved profile, the
\* added entries and the custom food are still there.
C10_Witness ==
    /\ status = "success"
    /\ weekly_goals = ImportedGoals
    /\ user_profile["name"] = "Ann"
    /\ "Kale" \in DOMAIN food_database
    /\ DOMAIN daily_entries = {0}
    /\ Len(daily_entries[0]) = 2
    /\ daily_entries[0][1].food_name = "Kale"

SavedFields(p) ==
    LET t == CalculatedTargets(p[3], p[4], p[2], p[5], p[6], p[7])
    IN [name |-> p[1], age |-> p[2], weight |-> p[3], height |-> p[4],
        gender |-> p[5], activity_level |-> p[6], goal |-> p[7],
        daily_calories |-> t.daily_calories, daily_protein |-> t.daily_protein,
        daily_carbs |-> t.daily_carbs, daily_fat |-> t.daily_fat]

\* C12: saving the profile stores the inputs and overwrites the four derived
\* targets with the values computed from the inputs being saved, whatever the
\* profile held before; and saving inputs the profile already holds with
\* their targets leaves the profile unchanged.
C12_SaveOverwritesTargets ==
    [][\A p \in ProfileInputs :
         (/\ status' = "success"
          /\ daily_entries' = daily_entries
          /\ weekly_goals' = weekly_goals
          /\ SaveProfile(p[1], p[2], p[3], p[4], p[5], p[6], p[7])) =>
            LET saved == SavedFields(p)
            IN /\ DOMAIN user_profile' = DOMAIN user_profile \cup DOMAIN saved
               /\ \A k \in DOMAIN saved : user_profile'[k] = saved[k]
               /\ \A k \in DOMAIN user_profile \ DOMAIN saved :
                     user_profile'[k] = user_profile[k]
               /\ (/\ DOMAIN saved \subseteq DOMAIN user_profile
                   /\ \A k \in DOMAIN saved : user_profile[k] = saved[k])
                     => user_profile' = user_profile]_vars

\* C12 witness: after an import had brought its own profile, goals and log,
\* a save has put the targets of the saved inputs (1452 kcal for a 30-year-old
\* woman of 60 kg and 165 cm, lightly active, losing weight) in the profile.
C12_Witness ==
    /\ status = "success"
    /\ weekly_goals = ImportedGoals
    /\ daily_entries \in ImportedLogs
    /\ user_profile["name"] = "Ann"
    /\ user_profile["daily_calories"] = 1452
    /\ user_profile["daily_protein"] = 132 * MacroScale
    /\ 4 * user_profile["daily_carbs"] = 561 * MacroScale
    /\ 9 * user_profile["daily_fat"] = 363 * MacroScale

\* The activity multipliers as the specification lists them, in thousandths.
ListedMultiplier(level) ==
    CASE level = "Sedentary" -> 1200
      [] level = "Light" -> 1375
      [] level = "Moderate" -> 1550
      [] level = "Active" -> 1725
      [] level = "Very Active" -> 1900
      [] OTHER -> 1550

\* r = floor(num / den) and r = trunc(num / den), for den > 0.
IsFloor(r, num, den) == r * den <= num /\ num < (r + 1) * den
IsTrunc(r, num, den) ==
    IF num >= 0 THEN IsFloor(r, num, den)
    ELSE (r - 1) * den < num /\ num <= r * den

\* C13 (as claimed): calculate_daily_calories returns floor(bmr * multiplier)
\* for every BMR the formula produces, negative ones included, the multiplier
\* being the listed one and 1.55 for an unknown level.
C13_DailyCaloriesIsFloor ==
    output.page = "daily_calories" =>
        IsFloor(output.result, output.bmr * ListedMultiplier(output.activity_level),
                BmrScale * 1000)

\* C13 (amended): calculate_daily_calories returns bmr * multiplier truncated
\* toward zero: floor(bmr * multiplier) when the BMR is not negative and
\* ceil(bmr * multiplier) when it is, the multiplier being the listed one and
\* 1.55 for an unknown level.
C13_DailyCaloriesIsTruncation ==
    output.page = "daily_calories" =>
        IsTrunc(output.result, output.bmr * ListedMultiplier(output.activity_level),
                BmrScale * 1000)

\* C13 witness: a BMR of -438.5 (a 120-year-old woman of 1 kg and 50 cm) at
\* an unknown level gives -679, where the floor of -679.675 is -680.
C13_Witness ==
    /\ output.page = "daily_calories"
    /\ output.bmr * 2 = -877 * BmrScale
    /\ output.activity_level = "Extreme"
    /\ output.result = -679

\* C14: the calorie target shown is the goal factor applied to the value
\* calculate_daily_calories returns (already multiplied and truncated), and
\* truncated again: trunc(0.8 * it) for Lose Weight, trunc(1.2 * it) for Gain
\* Weight, the value itself for Maintain Weight; a BMR of 1673.5, moderately
\* active (2593), losing weight, gives 2074.
C14_GoalAppliedAfterTruncation ==
    output.page = "profile" =>
        LET base == calculate_daily_calories(output.bmr, output.activity_level)
            final == output.targets.daily_calories
        IN /\ output.goal = "Lose Weight" => IsTrunc(final, 8 * base, 10)
           /\ output.goal = "Gain Weight" => IsTrunc(final, 12 * base, 10)
           /\ output.goal = "Maintain Weight" => final = base
           /\ (/\ output.bmr * 2 = 3347 * BmrScale
               /\ output.activity_level = "Moderate"
               /\ output.goal = "Lose Weight") => (base = 2593 /\ final = 2074)

\* C14 witness: the targets of a 19-year-old man of 70.1 kg and 170 cm (BMR
\* 1673.5), moderately active and losing weight, are shown: 2074 kcal.
C14_Witness ==
    /\ output.page = "profile"
    /\ output.bmr * 2 = 3347 * BmrScale
    /\ output.activity_level = "Moderate"
    /\ output.goal = "Lose Weight"
    /\ output.targets.daily_calories = 2074

\* C15: the macro targets shown are protein = weight * 2.2, fat = 0.25 * the
\* final calorie target / 9 and carbs = (the final calorie target - 4 *
\* protein - 9 * fat) / 4, so that 4 * protein + 4 * carbs + 9 * fat is the
\* final calorie target (grams in 1/MacroScale, weight in tenths of a kg).
C15_MacrosFromFinalTarget ==
    output.page = "profile" =>
        LET t == output.targets
        IN /\ 100 * t.daily_protein = 22 * output.weight * MacroScale
           /\ 36 * t.daily_fat = t.daily_calories * MacroScale
           /\ 4 * t.daily_carbs
                = t.daily_calories * MacroScale - 4 * t.daily_protein - 9 * t.daily_fat
           /\ 4 * t.daily_protein + 4 * t.daily_carbs + 9 * t.daily_fat
                = t.daily_calories * MacroScale

\* C15 witness: the targets of a person of 500 kg with a reduced calorie
\* target are shown, the carbs target below zero.
C15_Witness ==
    /\ output.page = "profile"
    /\ output.weight = 5000
    /\ output.goal = "Lose Weight"
    /\ output.targets.daily_carbs < 0
    /\ output.targets.daily_calories > 0

\* The set of the elements of a sequence.
Range(seq) == { seq[i] : i \in 1..Len(seq) }

\* Today's total of a field, zero when today has no entries.
TodayTotal(field) ==
    SumUpTo(BucketOf(daily_entries, output.date),
            Len(BucketOf(daily_entries, output.date)), field)

\* C16 (as claimed): the badges shown are exactly those whose rule holds:
\* Week Warrior iff streak >= 7, Month Master iff streak >= 30, Century
\* Champion iff streak >= 100, Protein Power iff today's protein total >= the
\* protein target, Fiber Champion iff today's fiber total >= 25 g, today's
\* totals being zero when today has no entries.
C16_BadgesByRule ==
    output.page = "goals" =>
        LET shown == Range(output.badges)
        IN /\ shown \subseteq {"Week Warrior", "Month Master", "Century Champion",
                                "Protein Power", "Fiber Champion"}
           /\ "Week Warrior" \in shown <=> output.streak >= 7
           /\ "Month Master" \in shown <=> output.streak >= 30
           /\ "Century Champion" \in shown <=> output.streak >= 100
           /\ "Protein Power" \in shown <=>
                 9 * TodayTotal("protein") >= 250 * user_profile["daily_protein"]
           /\ "Fiber Champion" \in shown <=>
                 TodayTotal("fiber") >= 25 * NutritionScale

\* C16 (amended): as claimed for the three streak badges and for Fiber
\* Champion; Protein Power is shown iff today is a key of the log and today's
\* protein total >= the protein target (with today absent from the log it is
\* not shown even when the target is 0).
C16_BadgesByRuleTodayLogged ==
    output.page = "goals" =>
        LET shown == Range(output.badges)
        IN /\ shown \subseteq {"Week Warrior", "Month Master", "Century Champion",
                                "Protein Power", "Fiber Champion"}
           /\ "Week Warrior" \in shown <=> output.streak >= 7
           /\ "Month Master" \in shown <=> output.streak >= 30
           /\ "Century Champion" \in shown <=> output.streak >= 100
           /\ "Protein Power" \in shown <=>
                 /\ output.date \in DOMAIN daily_entries
                 /\ 9 * TodayTotal("protein") >= 250 * user_profile["daily_protein"]
           /\ "Fiber Champion" \in shown <=>
                 TodayTotal("fiber") >= 25 * NutritionScale

\* C16 witness: with a streak of 30, exactly 90 g of protein against a target
\* of 90 g and exactly 25 g of fiber today, four badges are shown at once.
C16_Witness ==
    /\ output.page = "goals"
    /\ output.streak = 30
    /\ user_profile["daily_protein"] = 90 * MacroScale
    /\ TodayTotal("protein") = 90 * NutritionScale
    /\ TodayTotal("fiber") = 25 * NutritionScale
    /\ Range(output.badges)
          = {"Week Warrior", "Month Master", "Protein Power", "Fiber Champion"}

\* The days among date, date - 1, ..., date - 6 that are keys of the log.
PresentDays(log, date) == { i \in 0..6 : (date - i) \in DOMAIN log }

\* The total calories of those of the days date, ..., date - (k - 1) that are
\* keys of the log.
RECURSIVE PresentTotal(_, _, _)
PresentTotal(log, date, k) ==
    IF k = 0 THEN 0
    ELSE PresentTotal(log, date, k - 1)
         + (IF (date - (k - 1)) \in DOMAIN log
            THEN SumUpTo(log[date - (k - 1)], Len(log[date - (k - 1)]), "calories")
            ELSE 0)

\* The message for an average of total / count against the target: below
\* 90 %, above 110 %, otherwise on target.
ExpectedInsight(total, count, target) ==
    IF total < count * LowerEdge(target) THEN "below"
    ELSE IF total > count * UpperEdge(target) THEN "above"
    ELSE "on"

\* C17 (as claimed): whenever at least one of the last 7 days is in the log,
\* an insight is shown, and it classifies the average of the calorie totals
\* of those of the 7 days that are in the log (absent days excluded) against
\* 90 % and 110 % of the target.
C17_InsightWheneverDayPresent ==
    output.page = "goals" =>
        LET present == PresentDays(daily_entries, output.date)
        IN present # {} =>
             output.insight
               = ExpectedInsight(PresentTotal(daily_entries, output.date, 7),
                                 Cardinality(present), user_profile["daily_calories"])

\* C17 (amended): an insight is shown exactly when the log holds at least 7
\* dates (of any age) and at least one of the last 7 days is in the log; it
\* then classifies the average of the calorie totals of those of the 7 days
\* that are in the log (absent days excluded, empty days counted as 0)
\* against 90 % and 110 % of the target.
C17_InsightNeedsSevenDates ==
    output.page = "goals" =>
        LET present == PresentDays(daily_entries, output.date)
        IN IF Cardinality(DOMAIN daily_entries) >= 7 /\ present # {}
           THEN output.insight
                  = ExpectedInsight(PresentTotal(daily_entries, output.date, 7),
                                    Cardinality(present), user_profile["daily_calories"])
           ELSE output.insight = "none"

\* C17 witness: three of the last 7 days are in the log, each at the target,
\* with older days beside them, and the on-target message is shown (the
\* week's total over 7 would be below target).
C17_Witness ==
    /\ output.page = "goals"
    /\ output.insight = "on"
    /\ Cardinality(PresentDays(daily_entries, output.date)) = 3
    /\ Cardinality(DOMAIN daily_entries) >= 7
    /\ PresentTotal(daily_entries, output.date, 7)
          = 3 * user_profile["daily_calories"] * NutritionScale

\* C18 (as claimed): for every log, the empty one included, the weekly chart
\* has exactly 7 (date, calories) pairs, for the 7 consecutive days ending
\* today, oldest first, a date of the log carrying the sum of its entries'
\* calories and a date missing from the log carrying 0.
C18_WeeklySeriesAlwaysSeven ==
    output.page = "dashboard" =>
        LET chart == output.weekly_chart
        IN /\ ~chart.none
           /\ Len(chart.dates) = 7
           /\ Len(chart.calories) = 7
           /\ \A k \in 1..7 :
                /\ chart.dates[k] = output.date - 7 + k
                /\ chart.calories[k]
                     = SumUpTo(BucketOf(daily_entries, chart.dates[k]),
                               Len(BucketOf(daily_entries, chart.dates[k])), "calories")

\* C18 (amended): for every log that has at least one date, the weekly chart
\* has exactly 7 (date, calories) pairs, for the 7 consecutive days ending
\* today, oldest first, a date of the log carrying the sum of its entries'
\* calories and a date missing from the log carrying 0; for the empty log
\* there is no chart at all.
C18_WeeklySeriesUnlessEmptyLog ==
    output.page = "dashboard" =>
        LET chart == output.weekly_chart
        IN IF DOMAIN daily_entries = {}
           THEN chart.none
           ELSE /\ ~chart.none
                /\ Len(chart.dates) = 7
                /\ Len(chart.calories) = 7
                /\ \A k \in 1..7 :
                     /\ chart.dates[k] = output.date - 7 + k
                     /\ chart.calories[k]
                          = SumUpTo(BucketOf(daily_entries, chart.dates[k]),
                                    Len(BucketOf(daily_entries, chart.dates[k])),
                                    "calories")

\* C18 witness: the chart of a log that holds today, the day 2 days ago and
\* the day 5 days ago, with different calories, and an older day: zeros on
\* the four missing days.
C18_Witness ==
    /\ output.page = "dashboard"
    /\ ~output.weekly_chart.none
    /\ DOMAIN daily_entries = {0, -2, -5, -7}
    /\ output.weekly_chart.dates = <<-6, -5, -4, -3, -2, -1, 0>>
    /\ output.weekly_chart.calories[1] = 0
    /\ output.weekly_chart.calories[2] = 2000 * NutritionScale + 2000
    /\ output.weekly_chart.calories[5] = 2000 * NutritionScale - 1000
    /\ output.weekly_chart.calories[7] = 2000 * NutritionScale - 3000

\* The positions <<date, index>> of the entries on dates within the range
\* whose food is a key of the catalog with the given category.
CategoryEntries(category) ==
    UNION { { <<d, i>> : i \in { j \in 1..Len(daily_entries[d]) :
                /\ daily_entries[d][j].food_name \in DOMAIN food_database
                /\ get_category(food_database[daily_entries[d][j].food_name])
                     = category } } :
            d \in { x \in DOMAIN daily_entries :
                      output.start_date <= x /\ x <= output.end_date } }

\* The total snapshot calories of the entries at a set of positions.
RECURSIVE CaloriesAt(_)
CaloriesAt(positions) ==
    IF positions = {} THEN 0
    ELSE LET pos == CHOOSE x \in positions : TRUE
         IN daily_entries[pos[1]][pos[2]].nutrition.calories
            + CaloriesAt(positions \ {pos})

\* C19: the category breakdown of a date range has, for each category, the
\* number and the total snapshot calories of exactly the entries on dates
\* within the range (both ends included) whose food is a key of the catalog
\* with that category; a category without such entries is not listed, and
\* entries whose food the catalog lacks count nowhere.
C19_CategoryBreakdown ==
    output.page = "analytics" =>
        /\ DOMAIN output.category_totals
              \subseteq {"Fruits", "Vegetables", "Proteins", "Grains", "Dairy"}
        /\ \A category \in {"Fruits", "Vegetables", "Proteins", "Grains", "Dairy"} :
              LET entries == CategoryEntries(category)
              IN IF entries = {}
                 THEN category \notin DOMAIN output.category_totals
                 ELSE /\ category \in DOMAIN output.category_totals
                      /\ output.category_totals[category].count = Cardinality(entries)
                      /\ output.category_totals[category].calories = CaloriesAt(entries)

\* C19 witness: the breakdown of days -1 to 0 of a log that holds an imported
\* Pizza (not in the catalog) and an imported Apple on day 0 and an added Oats
\* entry on day 1: one Fruits entry with the document's 80 kcal, nothing else.
C19_Witness ==
    /\ output.page = "analytics"
    /\ output.start_date = -1
    /\ output.end_date = 0
    /\ DOMAIN daily_entries = {0, 1}
    /\ daily_entries[0] = <<PizzaEntry, AppleEntry>>
    /\ Len(daily_entries[1]) = 1
    /\ daily_entries[1][1].food_name = "Oats"
    /\ output.category_totals
          = [c \in {"Fruits"} |-> [calories |-> 80 * NutritionScale, count |-> 1]]

\* C20: the streak shown is between 0 and 30, so Century Champion is never
\* among the badges, and Month Master is among them only when the streak is
\* exactly 30.
C20_StreakAtMostThirty ==
    output.page = "goals" =>
        /\ 0 <= output.streak
        /\ output.streak <= 30
        /\ "Century Champion" \notin Range(output.badges)
        /\ "Month Master" \in Range(output.badges) => output.streak = 30

\* C20 witness: 31 in-band days end today; the streak shown is 30 and Month
\* Master is among the badges.
C20_Witness ==
    /\ output.page = "goals"
    /\ \A i \in 0..30 : DayCounts(daily_entries, 0, user_profile["daily_calories"], i)
    /\ output.streak = 30
    /\ "Month Master" \in Range(output.badges)
    /\ "Week Warrior" \in Range(output.badges)

\* The log without its empty buckets: what the log would be if a date were a
\* key only while entries are logged for it.
LoggedDays(log) == { d \in DOMAIN log : log[d] # <<>> }

\* C21 (as claimed): a date is a key of the daily log only while at least one
\* entry is logged for it, so the streak and the weekly insight are those of
\* the log without empty buckets.
C21_NoEmptyBucket ==
    /\ \A d \in DOMAIN daily_entries : daily_entries[d] # <<>>
    /\ LET logged == Restrict(daily_entries, LoggedDays(daily_entries))
           target == user_profile["daily_calories"]
       IN /\ streak(daily_entries, today, target) = streak(logged, today, target)
          /\ insight(daily_entries, today, target) = insight(logged, today, target)

\* C21 (amended): a date with an entry is a key of the daily log, but not
\* the other way round: adding and removing entries never takes a key out of
\* the log, a new key comes with its first entry, and a bucket becomes empty
\* only by the removal of its last entry, after which the date stays a key
\* with no entries.  For a positive calorie target the streak treats such a
\* day like a day never logged.
C21_EmptiedBucketStays ==
    [][/\ \A d \in DOMAIN daily_entries : d \in DOMAIN daily_entries'
       /\ \A d \in DOMAIN daily_entries' :
             daily_entries'[d] = <<>> =>
                 /\ d \in DOMAIN daily_entries
                 /\ Len(daily_entries[d]) <= 1
                 /\ Len(daily_entries[d]) = 1 => d = today /\ status' = ""
       /\ LET logged == Restrict(daily_entries', LoggedDays(daily_entries'))
              target == user_profile'["daily_calories"]
          IN target > 0 =>
                streak(daily_entries', today', target) = streak(logged, today', target)
      ]_vars

\* C21 witness: yesterday's entry is within the band, today's only entry was
\* removed; today is still a key, its bucket is empty, and the streak is 0 as
\* if today had never been logged.
C21_Witness ==
    /\ today = 1
    /\ DOMAIN daily_entries = {0, 1}
    /\ daily_entries[1] = <<>>
    /\ daily_entries[0] # <<>>
    /\ status = ""
    /\ streak(daily_entries, 0, user_profile["daily_calories"]) = 1
    /\ streak(daily_entries, 1, user_profile["daily_calories"]) = 0

\* C22 (as claimed): the daily calorie target that Save Profile stores for a
\* profile the form accepts is strictly positive, so no script run ends in a
\* division by zero.
C22_SavedCaloriesPositive ==
    /\ user_profile["daily_calories"] > 0
    /\ status # "ZeroDivisionError"

====
